---- MODULE Spec2Model ----
(***************************************************************************)
(* Model of the Fourier contour drawer: compute_dft (src/src/fourier.py)   *)
(* and FourierDrawerAnimator (src/src/animator.py).                        *)
(*   Spec:       the pipeline of main.py: contour, compute_dft on both     *)
(*               axes, truncation to 1..N circles, construction, then      *)
(*               save_animation with a positive frame count.               *)
(*   SpecDriver: the class called directly: any truncation 0..N, update    *)
(*               called with any arguments in any order.                   *)
(* The animator is constructed with the parameters __init__ declares       *)
(* (main.py's own call also passes figsize, which __init__ does not take). *)
(* Contours need not be centred: compute_dft and the animator take any.    *)
(*                                                                         *)
(* Arithmetic is exact.  Signals have length 1, 2 or 4 and frame counts    *)
(* divide 4, so every e^{2 pi i k n / N} and e^{2 pi i k f / F} is a power *)
(* of i and a complex number is a pair <<re, im>> of integers.  Samples    *)
(* are multiples of 4, so |X_k| / n and 1.5 * max are integers too.        *)
(*   amp   (a real, maybe irrational) is kept as its square, amp2;         *)
(*   phase (an angle) is kept as the primitive integer vector pointing in  *)
(*         that direction, <<1, 0>> for angle 0;                           *)
(*   t = frame / total_frames is kept as the pair <<frame, total_frames>>. *)
(***************************************************************************)
EXTENDS Integers, Sequences, FiniteSets, TLC

VARIABLES
    pc,             \* position of the caller: "points", "coeffs", "ready", "saving", "done"
    points,         \* original_points: the contour, a sequence of <<x, y>>
    x_full, y_full, \* compute_dft(x_coords), compute_dft(y_coords)
    x_coeffs, y_coeffs,                             \* self.x_coeffs, self.y_coeffs
    S, center_tl, center_tr, center_bl, center_br,  \* self.S and the quadrant centers
    trace_x, trace_y,                               \* self.trace_x, self.trace_y
    trace_line,                                     \* data of self.trace_line
    x_circles, y_circles,                           \* centre and radius of each Circle
    x_radii, y_radii,                               \* data of self.x_radii, self.y_radii
    proj_v, proj_h,                                 \* data of self.proj_v, self.proj_h
    frames,         \* the frames argument of save_animation
    seq,            \* the next item of FuncAnimation's frame sequence range(frames)
    err,            \* the exception the last call raised, "none" if it returned
    calls           \* history: <<frame, total_frames>> of every update call that returned

config == <<x_coeffs, y_coeffs, S, center_tl, center_tr, center_bl, center_br>>
artists == <<trace_line, x_circles, y_circles, x_radii, y_radii, proj_v, proj_h>>
vars == <<pc, points, x_full, y_full, config, trace_x, trace_y, artists,
          frames, seq, err, calls>>

----------------------------------------------------------------------------
(* Bounds *)

MaxVal == 1     \* samples range over 4 * (-MaxVal .. MaxVal)
MaxCalls == 2   \* direct calls of update in SpecDriver

Lengths == {1, 2, 4}

Signals(lo, hi) ==
    UNION {[1..n -> {4 * v : v \in lo..hi}] : n \in Lengths}

\* The signal delayed cyclically by r samples.
Lagged(sig, r) ==
    [j \in 1..Len(sig) |-> sig[((j - 1 + r) % Len(sig)) + 1]]

\* Closed contours: the y signal is the x signal itself or the x signal one
\* sample later (x = cos, y = sin when N = 4).
Contours(lo, hi) ==
    {[j \in 1..Len(x) |-> <<x[j], Lagged(x, r)[j]>>] :
        x \in Signals(lo, hi), r \in 0..1}

----------------------------------------------------------------------------
(* Complex numbers with integer parts *)

CAdd(a, b) == <<a[1] + b[1], a[2] + b[2]>>
CMul(a, b) == <<a[1] * b[1] - a[2] * b[2], a[1] * b[2] + a[2] * b[1]>>
CScale(r, a) == <<r * a[1], r * a[2]>>
Norm2(a) == a[1] * a[1] + a[2] * a[2]
AbsInt(v) == IF v < 0 THEN -v ELSE v

\* i^q
IPow(q) ==
    CASE q % 4 = 0 -> <<1, 0>>
      [] q % 4 = 1 -> <<0, 1>>
      [] q % 4 = 2 -> <<-1, 0>>
      [] q % 4 = 3 -> <<0, -1>>

RECURSIVE Gcd(_, _)
Gcd(a, b) == IF b = 0 THEN a ELSE Gcd(b, a % b)

\* The exact square root of a perfect square.
Root(v) == CHOOSE r \in 0..v : r * r = v

RECURSIVE MaxAbs(_)
MaxAbs(s) ==
    IF s = <<>> THEN 0
    ELSE LET m == MaxAbs(Tail(s))
         IN  IF AbsInt(Head(s)) > m THEN AbsInt(Head(s)) ELSE m

----------------------------------------------------------------------------
(* compute_dft *)

\* np.fft.fft(signal)[k] = sum over j of signal[j] * e^{-2 pi i k j / n}
RECURSIVE FftSum(_, _, _)
FftSum(signal, k, j) ==
    IF j = Len(signal) THEN <<0, 0>>
    ELSE CAdd(CScale(signal[j + 1], IPow(-((4 \div Len(signal)) * k * j))),
              FftSum(signal, k, j + 1))

fft(signal) == [i \in 1..Len(signal) |-> FftSum(signal, i - 1, 0)]

\* Faulty variant: the amplitude is not divided by n.
Amp2Unscaled(val, n) == Norm2(val)

\* amp = np.abs(val) / n, as amp^2
Amp2(val, n) == Norm2(val) \div (n * n)

\* phase = np.angle(val): the direction of val, angle 0 for val = 0
Angle(val) ==
    IF val = <<0, 0>> THEN <<1, 0>>
    ELSE LET g == Gcd(AbsInt(val[1]), AbsInt(val[2]))
         IN  <<val[1] \div g, val[2] \div g>>

\* c goes after every element whose amplitude is at least its own.
RECURSIVE InsertDesc(_, _)
InsertDesc(sorted, c) ==
    IF sorted = <<>> THEN <<c>>
    ELSE IF Head(sorted).amp2 >= c.amp2
         THEN <<Head(sorted)>> \o InsertDesc(Tail(sorted), c)
         ELSE <<c>> \o sorted

RECURSIVE StableDesc(_, _)
StableDesc(done, rest) ==
    IF rest = <<>> THEN done
    ELSE StableDesc(InsertDesc(done, Head(rest)), Tail(rest))

RECURSIVE InsertAsc(_, _)
InsertAsc(sorted, c) ==
    IF sorted = <<>> THEN <<c>>
    ELSE IF Head(sorted).amp2 <= c.amp2
         THEN <<Head(sorted)>> \o InsertAsc(Tail(sorted), c)
         ELSE <<c>> \o sorted

RECURSIVE StableAsc(_, _)
StableAsc(done, rest) ==
    IF rest = <<>> THEN done
    ELSE StableAsc(InsertAsc(done, Head(rest)), Tail(rest))

Reversed(s) == [i \in 1..Len(s) |-> s[Len(s) + 1 - i]]

\* Faulty variant: sorted ascending and then reversed, which turns ties around.
SortAscThenReverse(coefficients) == Reversed(StableAsc(<<>>, coefficients))

\* coefficients.sort(key=lambda x: x['amp'], reverse=True): list.sort is
\* stable, and reverse=True keeps equal keys in their original order.
SortByAmp(coefficients) == StableDesc(<<>>, coefficients)

compute_dft(signal) ==
    LET n == Len(signal)
        fourier == fft(signal)
        coefficients ==
            [i \in 1..n |-> [freq  |-> i - 1,
                             amp2  |-> Amp2(fourier[i], n),
                             phase |-> Angle(fourier[i])]]
    IN  SortByAmp(coefficients)

----------------------------------------------------------------------------
(* FourierDrawerAnimator._calculate_chain *)

\* Quarter turns in 2 * pi * freq * t, for t = <<frame, total_frames>>.
Quarter(freq, t) ==
    IF t[2] > 0 THEN (4 * freq * t[1]) \div t[2]
    ELSE -((4 * freq * t[1]) \div (-t[2]))

\* Faulty variant: the amplitude is left out of the term.
TermUnit(c, t) == CMul(c.phase, IPow(Quarter(c.freq, t)))

\* <<dx, dy>> = amp * <<cos(angle), sin(angle)>>, angle = phase + 2 pi freq t.
\* The direction of angle is phase turned by Quarter(freq, t); its length is
\* sqrt(Norm2(phase)), so amp over that length is Root(amp2 / Norm2(phase)).
Term(c, t) ==
    CScale(Root(c.amp2 \div Norm2(c.phase)),
           CMul(c.phase, IPow(Quarter(c.freq, t))))

\* <<curr_val_x, curr_val_y>> after the first i coefficients
RECURSIVE CurrVal(_, _, _)
CurrVal(coeffs, t, i) ==
    IF i = 0 THEN <<0, 0>>
    ELSE CAdd(CurrVal(coeffs, t, i - 1), Term(coeffs[i], t))

\* Faulty variant: the tip of the swapped chain is read from the unswapped points.
calculate_chain_stale_tip(coeffs, t, center, is_y_component) ==
    LET n == Len(coeffs)
        pts == [i \in 1..(n + 1) |-> CAdd(center, CurrVal(coeffs, t, i - 1))]
        swapped == [i \in 1..(n + 1) |->
                       <<center[1] + (pts[i][2] - center[2]),
                         center[2] + (pts[i][1] - center[1])>>]
    IN  IF is_y_component
        THEN [chain |-> swapped, tip |-> pts[n + 1]]
        ELSE [chain |-> pts, tip |-> pts[n + 1]]

\* Faulty variant: the y component is not swapped.
calculate_chain_no_swap(coeffs, t, center, is_y_component) ==
    LET n == Len(coeffs)
        pts == [i \in 1..(n + 1) |-> CAdd(center, CurrVal(coeffs, t, i - 1))]
    IN  [chain |-> pts, tip |-> pts[n + 1]]

_calculate_chain(coeffs, t, center, is_y_component) ==
    LET n == Len(coeffs)
        \* points[0] = center; points[i+1] = center + curr_val after coefficient i
        pts == [i \in 1..(n + 1) |-> CAdd(center, CurrVal(coeffs, t, i - 1))]
        swapped == [i \in 1..(n + 1) |->
                       <<center[1] + (pts[i][2] - center[2]),
                         center[2] + (pts[i][1] - center[1])>>]
    IN  IF is_y_component
        THEN [chain |-> swapped, tip |-> swapped[n + 1]]
        ELSE [chain |-> pts, tip |-> pts[n + 1]]

----------------------------------------------------------------------------
(* The caller: contour, coefficients, construction *)

Init ==
    /\ pc = "points"
    /\ points \in Contours(-MaxVal, MaxVal)
    /\ x_full = <<>> /\ y_full = <<>>
    /\ x_coeffs = <<>> /\ y_coeffs = <<>>
    /\ S = 0
    /\ center_tl = <<0, 0>> /\ center_tr = <<0, 0>>
    /\ center_bl = <<0, 0>> /\ center_br = <<0, 0>>
    /\ trace_x = <<>> /\ trace_y = <<>>
    /\ trace_line = <<>>
    /\ x_circles = <<>> /\ y_circles = <<>>
    /\ x_radii = <<>> /\ y_radii = <<>>
    /\ proj_v = <<>> /\ proj_h = <<>>
    /\ frames = 0
    /\ seq = 0
    /\ err = "none"
    /\ calls = <<>>

x_coords == [j \in 1..Len(points) |-> points[j][1]]
y_coords == [j \in 1..Len(points) |-> points[j][2]]

\* main: x_coeffs = compute_dft(x_coords); y_coeffs = compute_dft(y_coords)
ComputeDft ==
    /\ pc = "points"
    /\ x_full' = compute_dft(x_coords)
    /\ y_full' = compute_dft(y_coords)
    /\ pc' = "coeffs"
    /\ UNCHANGED <<points, config, trace_x, trace_y, artists, frames, seq, err, calls>>

\* FourierDrawerAnimator(x_coeffs[:num_circles], y_coeffs[:num_circles], points)
Construct(num_circles) ==
    /\ pc = "coeffs"
    /\ x_coeffs' = SubSeq(x_full, 1, num_circles)
    /\ y_coeffs' = SubSeq(y_full, 1, num_circles)
    /\ LET max_x == MaxAbs(x_coords)
           max_y == MaxAbs(y_coords)
           s == ((IF max_x > max_y THEN max_x ELSE max_y) * 3) \div 2
       IN  /\ S' = s
           /\ center_tl' = <<-s, s>>
           /\ center_tr' = <<s, s>>
           /\ center_bl' = <<-s, -s>>
           /\ center_br' = <<s, -s>>
    /\ trace_x' = <<>> /\ trace_y' = <<>>
    /\ trace_line' = <<>>
    /\ proj_v' = <<>> /\ proj_h' = <<>>
    /\ x_circles' = [i \in 1..num_circles |-> [center |-> <<0, 0>>, radius2 |-> 0]]
    /\ x_radii' = <<>>
    /\ y_circles' = [i \in 1..num_circles |-> [center |-> <<0, 0>>, radius2 |-> 0]]
    /\ y_radii' = <<>>
    /\ pc' = "ready"
    /\ UNCHANGED <<points, x_full, y_full, frames, seq, err, calls>>

----------------------------------------------------------------------------
(* FourierDrawerAnimator.update *)

\* Faulty variant: the frame index is taken from the length of the trace.
FrameTimeFromTrace(frame, total_frames) == <<Len(trace_x), total_frames>>

\* t = frame / total_frames
FrameTime(frame, total_frames) == <<frame, total_frames>>

\* drawn_x = x_tip[0]; drawn_y = y_tip[1]
Drawn(x_tip, y_tip) == <<x_tip[1], y_tip[2]>>

\* update(frame, total_frames), for total_frames # 0: everything it assigns.
update(frame, total_frames) ==
    LET t == FrameTime(frame, total_frames)
        x == _calculate_chain(x_coeffs, t, center_tr, FALSE)
        y == _calculate_chain(y_coeffs, t, center_bl, TRUE)
        drawn == Drawn(x.tip, y.tip)
    IN  /\ x_circles' = [i \in 1..Len(x_circles) |->
                            [center |-> x.chain[i], radius2 |-> x_coeffs[i].amp2]]
        /\ x_radii' = x.chain
        /\ y_circles' = [i \in 1..Len(y_circles) |->
                            [center |-> y.chain[i], radius2 |-> y_coeffs[i].amp2]]
        /\ y_radii' = y.chain
        /\ trace_x' = Append(trace_x, drawn[1])
        /\ trace_y' = Append(trace_y, drawn[2])
        /\ trace_line' = [i \in 1..Len(trace_x') |-> <<trace_x'[i], trace_y'[i]>>]
        /\ proj_v' = <<x.tip, drawn>>
        /\ proj_h' = <<y.tip, drawn>>
        /\ calls' = Append(calls, <<frame, total_frames>>)
        /\ UNCHANGED <<points, x_full, y_full, config>>

----------------------------------------------------------------------------
(* FourierDrawerAnimator.save_animation, as main calls it *)

FrameCounts == {1, 2, 4}

\* ani = animation.FuncAnimation(self.fig, self.update, frames=frames,
\*                               fargs=(frames,), ...); ani.save(...)
SaveAnimation(n) ==
    /\ pc = "ready"
    /\ frames' = n
    /\ seq' = 0
    /\ pc' = "init_draw"
    /\ UNCHANGED <<points, x_full, y_full, config, trace_x, trace_y, artists, err, calls>>

\* Animation.save first calls _init_draw.  The animation is built without an
\* init_func, so FuncAnimation._init_draw draws the first item of a fresh
\* frame sequence: update(0, frames).
InitDraw ==
    /\ pc = "init_draw"
    /\ update(0, frames)
    /\ pc' = "saving"
    /\ UNCHANGED <<frames, seq, err>>

\* Animation.save then draws each item of range(frames) in turn.
DrawNextFrame ==
    /\ pc = "saving"
    /\ seq < frames
    /\ update(seq, frames)
    /\ seq' = seq + 1
    /\ UNCHANGED <<pc, frames, err>>

\* The frame sequence is exhausted: the file is written, plt.close(self.fig).
Finish ==
    /\ pc = "saving"
    /\ seq = frames
    /\ pc' = "done"
    /\ UNCHANGED <<points, x_full, y_full, config, trace_x, trace_y, artists,
                   frames, seq, err, calls>>

\* main accepts num_circles in 1..max_circles and num_frames > 0 only.
Next ==
    \/ ComputeDft
    \/ \E num_circles \in 1..Len(points) : Construct(num_circles)
    \/ \E num_frames \in FrameCounts : SaveAnimation(num_frames)
    \/ InitDraw
    \/ DrawNextFrame
    \/ Finish

Spec == Init /\ [][Next]_vars

----------------------------------------------------------------------------
(* The class used directly: any truncation, update called with any arguments *)

DirectFrames == {0, 1}
DirectTotals == {-4, 0, 2}

InitDriver ==
    /\ Init
    /\ points \in Contours(0, MaxVal)

\* update(frame, 0): t = frame / total_frames raises ZeroDivisionError
\* before anything is assigned.
UpdateRaises(frame, total_frames) ==
    /\ pc = "ready"
    /\ Len(calls) < MaxCalls
    /\ total_frames = 0
    /\ err' = "ZeroDivisionError"
    /\ UNCHANGED <<pc, points, x_full, y_full, config, trace_x, trace_y, artists,
                   frames, seq, calls>>

UpdateReturns(frame, total_frames) ==
    /\ pc = "ready"
    /\ Len(calls) < MaxCalls
    /\ total_frames # 0
    /\ update(frame, total_frames)
    /\ err' = "none"
    /\ UNCHANGED <<pc, frames, seq>>

NextDriver ==
    \/ ComputeDft
    \/ \E num_circles \in 0..Len(points) : Construct(num_circles)
    \/ \E f \in DirectFrames, n \in DirectTotals : UpdateRaises(f, n)
    \/ \E f \in DirectFrames, n \in DirectTotals : UpdateReturns(f, n)

SpecDriver == InitDriver /\ [][NextDriver]_vars

----------------------------------------------------------------------------
(* Properties *)

N == Len(points)
Rendered == calls # <<>>
LastCall == calls[Len(calls)]
TracePoint(i) == <<trace_x[i], trace_y[i]>>
FreqOrder(cf) == [i \in 1..Len(cf) |-> cf[i].freq]

\* Real part of the partial sum of all the terms, taken term by term.
RECURSIVE RealSum(_, _)
RealSum(coeffs, t) ==
    IF coeffs = <<>> THEN 0
    ELSE Term(Head(coeffs), t)[1] + RealSum(Tail(coeffs), t)

SortedStable(signal, cf) ==
    /\ Len(cf) = Len(signal)
    /\ \A k \in 0..(Len(signal) - 1) :
          Cardinality({i \in 1..Len(cf) : cf[i].freq = k}) = 1
    /\ \A i, j \in 1..Len(cf) :
          i < j => \/ cf[i].amp2 > cf[j].amp2
                   \/ cf[i].amp2 = cf[j].amp2 /\ cf[i].freq < cf[j].freq

\* C1: compute_dft returns N coefficients, every frequency 0..N-1 exactly
\* once, amplitude descending, equal amplitudes in ascending frequency; the
\* signal [0, 1, 0, -1] (here on the grid of 4) gives the order [1, 3, 0, 2].
C1_SortedStable ==
    pc # "points" =>
        /\ SortedStable(x_coords, x_full)
        /\ SortedStable(y_coords, y_full)
        /\ x_coords = <<0, 4, 0, -4>> => FreqOrder(x_full) = <<1, 3, 0, 2>>

C1_Witness ==
    /\ pc = "coeffs"
    /\ x_coords = <<0, 4, 0, -4>>
    /\ FreqOrder(x_full) = <<1, 3, 0, 2>>
    /\ x_full[1].amp2 = x_full[2].amp2

\* C2: with all N coefficients, at t = n / N, the real-part sum (the tip's
\* offset from the anchor along the signal's axis) is signal[n], on both axes.
C2_RoundTrip ==
    (/\ Rendered
     /\ Len(x_coeffs) = N
     /\ (LastCall[1] * N) % LastCall[2] = 0) =>
        LET n == (LastCall[1] * N) \div LastCall[2]
        IN  /\ x_radii[N + 1][1] - center_tr[1] = x_coords[n + 1]
            /\ y_radii[N + 1][2] - center_bl[2] = y_coords[n + 1]

C2_Witness ==
    /\ pc = "done"
    /\ N = 4 /\ Len(x_coeffs) = 4 /\ frames = 4
    /\ LastCall = <<3, 4>>
    /\ x_coords = <<4, 4, 0, -4>>
    /\ x_radii[5][1] - center_tr[1] = -4
    /\ y_radii[5][2] - center_bl[2] = 4

\* C3: in both modes the chain has M + 1 points, starts at the anchor and
\* ends at the returned tip.
C3_ChainShape ==
    Rendered =>
        /\ Len(x_radii) = Len(x_coeffs) + 1
        /\ x_radii[1] = center_tr
        /\ x_radii[Len(x_radii)] = proj_v[1]
        /\ Len(y_radii) = Len(y_coeffs) + 1
        /\ y_radii[1] = center_bl
        /\ y_radii[Len(y_radii)] = proj_h[1]

C3_Witness ==
    /\ Rendered
    /\ Len(y_coeffs) = 3
    /\ Len(y_radii) = 4
    /\ y_radii[4] = proj_h[1]
    /\ y_radii[4][1] # center_bl[1]
    /\ y_radii[4][2] # center_bl[2]
    /\ LastCall[2] < 0

\* C4: after save_animation(frames = F) the trace holds exactly F points, the
\* i-th being the drawn point of frame index i.
C4_TraceHasOnePointPerFrame ==
    pc = "done" =>
        /\ Len(trace_x) = frames
        /\ Len(trace_y) = frames
        /\ \A i \in 1..Len(calls) : calls[i] = <<i - 1, frames>>

\* C5: the drawn point is (TR.x + real sum of X, BL.y + real sum of Y); its x
\* is the X tip's x and its y the swapped Y tip's y, so the projection from
\* the X tip is vertical and the one from the Y tip horizontal.
C5_DrawnPoint ==
    Rendered =>
        LET drawn == TracePoint(Len(trace_x))
            x_tip == x_radii[Len(x_radii)]
            y_tip == y_radii[Len(y_radii)]
        IN  /\ Len(trace_x) = Len(trace_y)
            /\ drawn[1] = center_tr[1] + RealSum(x_coeffs, LastCall)
            /\ drawn[2] = center_bl[2] + RealSum(y_coeffs, LastCall)
            /\ drawn[1] = x_tip[1]
            /\ drawn[2] = y_tip[2]
            /\ proj_v = <<x_tip, drawn>>
            /\ proj_v[1][1] = proj_v[2][1]
            /\ proj_h = <<y_tip, drawn>>
            /\ proj_h[1][2] = proj_h[2][2]

C5_Witness ==
    /\ Rendered
    /\ x_coords = <<4, 0, -4, 0>>
    /\ y_coords = <<0, -4, 0, 4>>
    /\ Len(x_coeffs) = 1
    /\ LastCall = <<0, 4>>
    /\ TracePoint(Len(trace_x)) = <<center_tr[1] + 2, center_bl[2]>>
    /\ y_radii[2][1] # center_bl[1]

\* C6: chain reconstruction with zero coefficients raises an error instead of
\* returning a chain.
C6_ZeroCoefficientsRejected ==
    (/\ pc = "ready"
     /\ x_coeffs = <<>>
     /\ \A i \in 1..Len(calls) : calls[i][2] > 0) =>
        (calls = <<>> /\ x_radii = <<>>)

\* C7: a non-positive total frame count is rejected before any frame is
\* computed: no frame is emitted and the trace is left unchanged.
C7_NonPositiveFramesRejected ==
    \A i \in 1..Len(calls) : calls[i][2] > 0

\* C8: frames are rendered for f = 0, 1, ..., F-1 in strictly increasing
\* order and no frame index is rendered a second time.
C8_NoFrameRenderedTwice ==
    \A i, j \in 1..Len(calls) : i < j => calls[i][1] < calls[j][1]

AllZero == \A j \in 1..N : points[j] = <<0, 0>>

\* C10: for an all-zero signal on both axes every amplitude is 0, every chain
\* point is its anchor, every frame draws the same point, no error is raised.
C10_ZeroSignal ==
    AllZero =>
        /\ \A i \in 1..Len(x_full) : x_full[i].amp2 = 0
        /\ \A i \in 1..Len(y_full) : y_full[i].amp2 = 0
        /\ \A i \in 1..Len(x_radii) : x_radii[i] = center_tr
        /\ \A i \in 1..Len(y_radii) : y_radii[i] = center_bl
        /\ \A i \in 1..Len(trace_x) : TracePoint(i) = TracePoint(1)
        /\ Rendered => TracePoint(1) = <<center_tr[1], center_bl[2]>>
        /\ err = "none"

C10_Witness ==
    /\ AllZero
    /\ N = 4
    /\ pc = "done"
    /\ Len(x_coeffs) = 3
    /\ Len(trace_x) >= 3
    /\ Len(x_radii) = 4

====
